---- MODULE Spec2Model ----
(***************************************************************************)
(* A model of circuits.io.file.File (the non-blocking stream component)    *)
(* and of circuits.core.helpers.FallBackGenerator (the idle fallback).     *)
(*                                                                         *)
(* The File object, the poller's registry entries for its descriptor and   *)
(* the bytes the descriptor has received are one record, `file`; every     *)
(* method of File is an operator from such a record to the record after    *)
(* the call.  The other variables of the stream part record what happened  *)
(* (which operation ran last, what has been submitted, what was signalled);*)
(* the code never reads them.                                              *)
(***************************************************************************)
EXTENDS Integers, Sequences, FiniteSets, TLC

(***************************************************************************)
(* Bounds of the model.                                                    *)
(***************************************************************************)
\* write() calls in one run
MaxWrites == 2
\* "closed" signals in one run
MaxClosed == 2
\* the largest positive time_left a GenerateEvents event starts with
MaxTimeLeft == 2

\* the chunks a caller submits with write(): the empty chunk and the chunks
\* "ab" and "cd"
Chunks == { <<>>, <<"a", "b">>, <<"c", "d">> }

\* the modes a File is opened with
Modes == { "r", "w", "r+" }

\* errno values an I/O call fails with; EIO stands for every errno that is
\* neither would-block nor peer-gone
Errnos == { "EWOULDBLOCK", "EPIPE", "ENOTCONN", "EIO" }

VARIABLES
    file,        \* the File object, its poller registrations, its sink
    op,          \* the operation that ran last, with its input
    submitted,   \* the bytes of every write(data) so far, in call order
    nWrites,     \* write() calls so far
    nClosed,     \* "closed" signals so far
    hist,        \* what has happened so far (see HistInit)
    ev,          \* the GenerateEvents event: time_left and its lock
    cont,        \* FallBackGenerator._continue, the wake signal
    gen,         \* the dispatch thread inside _on_generate_events
    prod         \* the producer thread

fvars == << file, op, submitted, nWrites, nClosed, hist >>
gvars == << ev, cont, gen, prod >>
vars == << file, op, submitted, nWrites, nClosed, hist, ev, cont, gen, prod >>

----------------------------------------------------------------------------
(***************************************************************************)
(* Sequences                                                               *)
(***************************************************************************)
RECURSIVE Concat(_)
\* the bytes of a queue of chunks, head to tail
Concat(q) == IF q = <<>> THEN <<>> ELSE Head(q) \o Concat(Tail(q))

\* data[n:]
Drop(data, n) == SubSeq(data, n + 1, Len(data))

IsPrefix(p, s) == Len(p) <= Len(s) /\ SubSeq(s, 1, Len(p)) = p

Count(q, e) == Cardinality({ i \in 1..Len(q) : q[i] = e })

----------------------------------------------------------------------------
(***************************************************************************)
(* The poller: the registry entries of this File's descriptor.             *)
(***************************************************************************)
isWriting(s) == s.writing

addReader(s) == [s EXCEPT !.reading = TRUE]

addWriter(s) == [s EXCEPT !.writing = TRUE]

removeWriter(s) == [s EXCEPT !.writing = FALSE]

discard(s) == [s EXCEPT !.reading = FALSE, !.writing = FALSE,
                        !.discards = @ + 1]

----------------------------------------------------------------------------
(***************************************************************************)
(* File                                                                    *)
(***************************************************************************)
\* File.init: the object after construction, for a given mode
init(mode) ==
    [ mode      |-> mode,
      fd        |-> "None",     \* self._fd: None or the open file object
      fd_closed |-> FALSE,      \* self._fd.closed
      poller    |-> "None",     \* self._poller: None, or which poller was bound
      buffer    |-> <<>>,       \* self._buffer
      closeflag |-> FALSE,      \* self._closeflag
      reading   |-> FALSE,      \* the poller has the descriptor as a reader
      writing   |-> FALSE,      \* the poller has the descriptor as a writer
      discards  |-> 0,          \* poller.discard calls made by the last handler
      sink      |-> <<>>,       \* the bytes os.write has put on the descriptor
      readyq    |-> 0,          \* Ready events fired and not yet handled
      fired     |-> <<>> ]      \* the events the last handler fired, in order

\* self.fire(e); a Ready event is queued for _on_ready, the other events
\* go to the application
fire(s, e) == [s EXCEPT !.fired = Append(@, e),
                        !.readyq = IF e = "ready" THEN @ + 1 ELSE @]

\* a handler starts with nothing fired and no discard made
enter(s) == [s EXCEPT !.fired = <<>>, !.discards = 0]

\* File.closed
closed(s) == s.fd_closed

\* self._fd.cllse() inside try/except: a file object has no attribute
\* `cllse`, the AttributeError is swallowed, the descriptor stays open
cllse(s) == s

\* _close without `self._closeflag = False`
_close_noreset(s) ==
    IF closed(s) THEN s
    ELSE fire(cllse([discard(s) EXCEPT !.buffer = <<>>]), "closed")

\* File._close: discard, clear the queue, reset the flag, release the
\* descriptor, fire Closed
_close(s) ==
    IF closed(s) THEN s
    ELSE fire(cllse([discard(s) EXCEPT !.buffer = <<>>, !.closeflag = FALSE]),
              "closed")

\* File.close: tear down now, or set the flag while chunks are queued
close(s) ==
    IF s.buffer = <<>> THEN _close(s)
    ELSE IF ~s.closeflag THEN [s EXCEPT !.closeflag = TRUE]
    ELSE s

\* What self._fd.read(bufsize) does: returns data, returns nothing (end of
\* stream), or raises an error with an errno.
ReadOutcomes ==
    { [kind |-> "data"], [kind |-> "eof"] }
        \cup { [kind |-> "error", errno |-> e] : e \in { "EWOULDBLOCK", "EIO" } }

\* _read with close() in place of _close() after an error
_read_defer(s, r) ==
    IF r.kind = "data" THEN fire(s, "read")
    ELSE IF r.kind = "eof" THEN close(fire(s, "eof"))
    ELSE IF r.errno = "EWOULDBLOCK" THEN s
    ELSE close(fire(s, "error"))

\* File._read; r is what self._fd.read does
_read(s, r) ==
    IF r.kind = "data" THEN fire(s, "read")
    ELSE IF r.kind = "eof" THEN close(fire(s, "eof"))
    ELSE IF r.errno = "EWOULDBLOCK" THEN s
    ELSE _close(fire(s, "error"))

\* What os.write(fd, data) does: accepts the first n bytes, or raises an
\* error with an errno.  On a descriptor opened read-only it raises EBADF,
\* one of the errnos EIO stands for.
WriteOutcomes(s, data) ==
    IF s.mode = "r" THEN { [kind |-> "error", errno |-> "EIO"] }
    ELSE { [kind |-> "ok", n |-> n] : n \in 0..Len(data) }
            \cup { [kind |-> "error", errno |-> e] : e \in Errnos }

\* _write with `append` in place of `appendleft`
_write_append(s, data, w) ==
    IF w.kind = "ok"
    THEN LET s1 == [s EXCEPT !.sink = @ \o SubSeq(data, 1, w.n)]
         IN IF w.n < Len(data)
            THEN [s1 EXCEPT !.buffer = Append(@, Drop(data, w.n))]
            ELSE s1
    ELSE IF w.errno \in { "EPIPE", "ENOTCONN" } THEN _close(s)
    ELSE fire(s, "error")

\* _write that closes on every error, with no test of the errno
_write_closeall(s, data, w) ==
    IF w.kind = "ok"
    THEN LET s1 == [s EXCEPT !.sink = @ \o SubSeq(data, 1, w.n)]
         IN IF w.n < Len(data)
            THEN [s1 EXCEPT !.buffer = <<Drop(data, w.n)>> \o @]
            ELSE s1
    ELSE _close(s)

\* _write with `nbytes <= len(data)`
_write_le(s, data, w) ==
    IF w.kind = "ok"
    THEN LET s1 == [s EXCEPT !.sink = @ \o SubSeq(data, 1, w.n)]
         IN IF w.n <= Len(data)
            THEN [s1 EXCEPT !.buffer = <<Drop(data, w.n)>> \o @]
            ELSE s1
    ELSE IF w.errno \in { "EPIPE", "ENOTCONN" } THEN _close(s)
    ELSE fire(s, "error")

\* File._write; w is what os.write does with data
_write(s, data, w) ==
    IF w.kind = "ok"
    THEN LET s1 == [s EXCEPT !.sink = @ \o SubSeq(data, 1, w.n)]
         IN IF w.n < Len(data)
            THEN [s1 EXCEPT !.buffer = <<Drop(data, w.n)>> \o @]
            ELSE s1
    ELSE IF w.errno \in { "EPIPE", "ENOTCONN" } THEN _close(s)
    ELSE fire(s, "error")

\* File.write
write(s, data) ==
    LET s1 == IF ~isWriting(s) THEN addWriter(s) ELSE s
    IN [s1 EXCEPT !.buffer = Append(@, data)]

\* __on_write without the `if self._closeflag: self._close()` branch
__on_write_noclose(s, w) ==
    LET s1 == IF s.buffer # <<>>
              THEN _write([s EXCEPT !.buffer = Tail(@)], Head(s.buffer), w)
              ELSE s
    IN IF s1.buffer = <<>>
       THEN IF isWriting(s1) THEN removeWriter(s1) ELSE s1
       ELSE s1

\* __on_write without the removeWriter branch
__on_write_keepwriter(s, w) ==
    LET s1 == IF s.buffer # <<>>
              THEN _write([s EXCEPT !.buffer = Tail(@)], Head(s.buffer), w)
              ELSE s
    IN IF s1.buffer = <<>>
       THEN IF s1.closeflag THEN _close(s1) ELSE s1
       ELSE s1

\* __on_write; w is what os.write does if the handler calls it
__on_write(s, w) ==
    LET s1 == IF s.buffer # <<>>
              THEN _write([s EXCEPT !.buffer = Tail(@)], Head(s.buffer), w)
              ELSE s
    IN IF s1.buffer = <<>>
       THEN IF s1.closeflag THEN _close(s1)
            ELSE IF isWriting(s1) THEN removeWriter(s1)
            ELSE s1
       ELSE s1

\* _on_registered; c tells which component was registered and what
\* findcmp(self.root, BasePoller) finds.  self._poller becomes "tree", the
\* poller of the component tree (the one registered, or the one findcmp
\* finds), or "default", the Poller() the File creates.
Registrations == { "poller", "self_found", "self_notfound", "other" }

_on_registered(s, c) ==
    IF s.poller = "None"
    THEN IF c = "poller" THEN fire([s EXCEPT !.poller = "tree"], "ready")
         ELSE IF c = "other" THEN s
         ELSE IF c = "self_found"
              THEN fire([s EXCEPT !.poller = "tree"], "ready")
              ELSE fire([s EXCEPT !.poller = "default"], "ready")
    ELSE s

\* _on_started without `if self._poller is None`
_on_started_rebind(s) == fire([s EXCEPT !.poller = "default"], "ready")

_on_started(s) ==
    IF s.poller = "None"
    THEN fire([s EXCEPT !.poller = "default"], "ready")
    ELSE s

\* _on_ready; ok tells whether open(filename, mode) succeeds
_on_ready(s, ok) ==
    IF ~ok THEN [s EXCEPT !.readyq = @ - 1]
    ELSE LET s1 == [s EXCEPT !.fd = "open", !.fd_closed = FALSE,
                             !.readyq = @ - 1]
             s2 == IF s.mode \in { "r", "r+" } THEN addReader(s1) ELSE s1
         IN fire(s2, "opened")

\* _on_stopped fires Close(), which the close handler takes
_on_stopped(s) == close(s)

\* _on_prepare_unregister; inSubtree is event.in_subtree(self)
_on_prepare_unregister(s, inSubtree) == IF inSubtree THEN _close(s) ELSE s

__on_disconnect(s) == _close(s)

__on_read(s, r) == _read(s, r)

----------------------------------------------------------------------------
(***************************************************************************)
(* The stream component's steps: one per handler or caller operation.      *)
(***************************************************************************)
NoMark == [set |-> FALSE, bytes |-> <<>>]

HistInit ==
    [ anyClose   |-> FALSE,    \* close() or _close() has been called
      writeFault |-> FALSE,    \* an os.write has raised
      eofSeen    |-> FALSE,    \* a read has returned no bytes
      nReady     |-> 0,        \* Ready events fired so far
      notifs     |-> 0,        \* writer-ready notifications met by a sink
                               \* that takes one byte per os.write
      closeMark  |-> NoMark ]  \* set by a deferred close(): the bytes the sink
                               \* holds once all that is queued is delivered

\* the operation that ran, and what it met: the outcome of its I/O call or
\* the kind of its input
Did(name, res) == [name |-> name, res |-> res]

\* the descriptor is open and a poller is bound
IsOpen(s) == s.fd = "open" /\ s.poller # "None"

\* the bookkeeping every step of the stream component shares
Record(s2, o, h) ==
    /\ file' = s2
    /\ op' = o
    /\ nClosed' = nClosed + Count(s2.fired, "closed")
    /\ nClosed' <= MaxClosed
    /\ hist' = [h EXCEPT !.closeMark =
                    IF s2.closeflag /\ ~file.closeflag
                    THEN [set |-> TRUE, bytes |-> s2.sink \o Concat(s2.buffer)]
                    ELSE IF file.closeflag THEN @ ELSE NoMark,
                         !.nReady = @ + Count(s2.fired, "ready")]
    /\ UNCHANGED gvars

Registered ==
    \E c \in Registrations :
        /\ Record(_on_registered(enter(file), c), Did("registered", IF file.poller = "None" THEN c ELSE "bound"), hist)
        /\ UNCHANGED << submitted, nWrites >>

Started ==
    /\ Record(_on_started(enter(file)), Did("started", IF file.poller = "None" THEN "unbound" ELSE "bound"), hist)
    /\ UNCHANGED << submitted, nWrites >>

Ready ==
    \E ok \in BOOLEAN :
        /\ file.readyq > 0
        /\ Record(_on_ready(enter(file), ok),
                  Did("ready", IF ok THEN "ok" ELSE "fail"), hist)
        /\ UNCHANGED << submitted, nWrites >>

Write ==
    \E data \in Chunks :
        /\ IsOpen(file)
        /\ nWrites < MaxWrites
        /\ Record(write(enter(file), data), Did("write", ""), hist)
        /\ submitted' = submitted \o data
        /\ nWrites' = nWrites + 1

Close ==
    /\ IsOpen(file)
    /\ Record(close(enter(file)), Did("close", ""),
              [hist EXCEPT !.anyClose = TRUE])
    /\ UNCHANGED << submitted, nWrites >>

Stopped ==
    /\ IsOpen(file)
    /\ Record(_on_stopped(enter(file)), Did("close", ""),
              [hist EXCEPT !.anyClose = TRUE])
    /\ UNCHANGED << submitted, nWrites >>

PrepareUnregister ==
    \E inSubtree \in BOOLEAN :
        /\ IsOpen(file)
        /\ Record(_on_prepare_unregister(enter(file), inSubtree),
                  Did("prepare_unregister", IF inSubtree THEN "in" ELSE "out"),
                  [hist EXCEPT !.anyClose = @ \/ inSubtree])
        /\ UNCHANGED << submitted, nWrites >>

Disconnect ==
    /\ IsOpen(file)
    /\ Record(__on_disconnect(enter(file)), Did("_disconnect", ""),
              [hist EXCEPT !.anyClose = TRUE])
    /\ UNCHANGED << submitted, nWrites >>

\* the poller notifies a registered reader
ReaderReady ==
    \E r \in ReadOutcomes :
        /\ file.reading
        /\ Record(__on_read(enter(file), r),
                  Did("_read", IF r.kind = "error" THEN r.errno ELSE r.kind),
                  [hist EXCEPT
                      !.anyClose = @ \/ r.kind = "eof"
                                     \/ (r.kind = "error" /\ r.errno # "EWOULDBLOCK"),
                      !.eofSeen = @ \/ r.kind = "eof"])
        /\ UNCHANGED << submitted, nWrites >>

\* the poller notifies a registered writer; os.write is called only if a
\* chunk is queued
WriterReady ==
    /\ file.writing
    /\ \/ /\ file.buffer = <<>>
          /\ Record(__on_write(enter(file), [kind |-> "ok", n |-> 0]),
                    Did("_write", "idle"), hist)
       \/ /\ file.buffer # <<>>
          /\ \E w \in WriteOutcomes(file, Head(file.buffer)) :
                Record(__on_write(enter(file), w),
                       Did("_write",
                           IF w.kind = "error" THEN w.errno
                           ELSE IF w.n < Len(Head(file.buffer)) THEN "partial"
                           ELSE "full"),
                       [hist EXCEPT
                           !.writeFault = @ \/ w.kind = "error",
                           !.anyClose = @ \/ (w.kind = "error" /\
                                              w.errno \in {"EPIPE", "ENOTCONN"})])
    /\ UNCHANGED << submitted, nWrites >>

\* write() of a chunk that holds at least one byte
WriteBytes ==
    \E data \in Chunks \ { <<>> } :
        /\ IsOpen(file)
        /\ nWrites < MaxWrites
        /\ Record(write(enter(file), data), Did("write", ""), hist)
        /\ submitted' = submitted \o data
        /\ nWrites' = nWrites + 1

\* the poller notifies a registered writer whose descriptor takes one byte
\* per os.write
WriterReadyOne ==
    /\ file.writing
    /\ file.mode # "r"
    /\ LET n == IF file.buffer # <<>> /\ Head(file.buffer) # <<>> THEN 1 ELSE 0
           full == file.buffer = <<>> \/ n = Len(Head(file.buffer))
       IN Record(__on_write(enter(file), [kind |-> "ok", n |-> n]),
                 Did("_write", IF full THEN "full" ELSE "partial"),
                 [hist EXCEPT !.notifs = @ + 1])
    /\ UNCHANGED << submitted, nWrites >>

----------------------------------------------------------------------------
(***************************************************************************)
(* FallBackGenerator: one call of _on_generate_events on the dispatch      *)
(* thread, step by step, and one producer thread.                          *)
(***************************************************************************)
\* what the producer thread does: nothing, resume() alone, or
\* event.reduce_time_left(0) and then resume(); prod.at is where the handler
\* was when resume() was called
ProducerKinds == { "none", "resume", "reduce_resume" }

\* the dispatch thread before the handler is called
GenStart ==
    [ pc      |-> "call",
      result  |-> "None",     \* the handler's return value
      path    |-> "",         \* the return statement taken: zero, pos, neg
      cont_in |-> FALSE,      \* the wake signal when the lock was taken
      t_in    |-> 0,          \* event.time_left when the lock was taken
      cleared |-> FALSE,      \* the handler has called _continue.clear()
      woke    |-> "" ]        \* how the last wait() ended: nowait, signal, timeout

\* GenerateEvents.reduce_time_left(t), under the event's lock
reduce_time_left(e, t) ==
    IF t >= 0 /\ (e.time_left < 0 \/ e.time_left > t)
    THEN [e EXCEPT !.time_left = t]
    ELSE e

\* `with event.lock:` entered
GenLock ==
    /\ gen.pc = "call"
    /\ ev.lock = "free"
    /\ ev' = [ev EXCEPT !.lock = "gen"]
    /\ gen' = [gen EXCEPT !.pc = "check", !.cont_in = cont,
                          !.t_in = ev.time_left]
    /\ UNCHANGED << cont, prod, fvars >>

\* the handler with clear() ahead of the test of time_left
GenCheck_clearfirst ==
    /\ gen.pc = "check"
    /\ cont' = FALSE
    /\ IF ev.time_left = 0
       THEN /\ ev' = [ev EXCEPT !.lock = "free"]
            /\ gen' = [gen EXCEPT !.pc = "done", !.result = "True",
                                  !.path = "zero", !.cleared = TRUE]
       ELSE /\ gen' = [gen EXCEPT !.pc = "unlock", !.cleared = TRUE]
            /\ UNCHANGED ev
    /\ UNCHANGED << prod, fvars >>

\* `if event.time_left == 0: return True`, which leaves the with block
GenCheck ==
    /\ gen.pc = "check"
    /\ IF ev.time_left = 0
       THEN /\ ev' = [ev EXCEPT !.lock = "free"]
            /\ gen' = [gen EXCEPT !.pc = "done", !.result = "True",
                                  !.path = "zero"]
       ELSE /\ gen' = [gen EXCEPT !.pc = "clear"]
            /\ UNCHANGED ev
    /\ UNCHANGED << cont, prod, fvars >>

\* self._continue.clear()
GenClear ==
    /\ gen.pc = "clear"
    /\ cont' = FALSE
    /\ gen' = [gen EXCEPT !.pc = "unlock", !.cleared = TRUE]
    /\ UNCHANGED << ev, prod, fvars >>

\* the with block left
GenUnlock ==
    /\ gen.pc = "unlock"
    /\ ev' = [ev EXCEPT !.lock = "free"]
    /\ gen' = [gen EXCEPT !.pc = "test_pos"]
    /\ UNCHANGED << cont, prod, fvars >>

\* `if event.time_left > 0:`
GenTestPos ==
    /\ gen.pc = "test_pos"
    /\ gen' = [gen EXCEPT !.pc = IF ev.time_left > 0 THEN "wait_pos"
                                 ELSE "test_neg"]
    /\ UNCHANGED << ev, cont, prod, fvars >>

\* a wait() that blocks although the signal is already set
GenWaitPos_edge ==
    /\ gen.pc = "wait_pos"
    /\ gen' = IF ev.time_left = 0
              THEN [gen EXCEPT !.pc = "reduce", !.woke = "nowait"]
              ELSE [gen EXCEPT !.pc = "blocked_pos"]
    /\ UNCHANGED << ev, cont, prod, fvars >>

\* self._continue.wait(event.time_left) called: it returns at once if the
\* signal is set or the timeout is 0, and blocks otherwise
GenWaitPos ==
    /\ gen.pc = "wait_pos"
    /\ gen' = IF cont \/ ev.time_left = 0
              THEN [gen EXCEPT !.pc = "reduce", !.woke = "nowait"]
              ELSE [gen EXCEPT !.pc = "blocked_pos"]
    /\ UNCHANGED << ev, cont, prod, fvars >>

\* a wait that only its timeout ends, as a sleep would
GenWake_sleep ==
    /\ gen.pc \in { "blocked_pos", "blocked_neg" }
    /\ FALSE
    /\ UNCHANGED vars

\* a blocked wait() returns because the signal is set
GenWake ==
    /\ gen.pc \in { "blocked_pos", "blocked_neg" }
    /\ cont
    /\ gen' = [gen EXCEPT !.pc = IF gen.pc = "blocked_pos" THEN "reduce"
                                 ELSE "test_neg",
                          !.woke = "signal"]
    /\ UNCHANGED << ev, cont, prod, fvars >>

\* a blocked wait() returns because its timeout has elapsed
GenTimeout ==
    /\ gen.pc \in { "blocked_pos", "blocked_neg" }
    /\ gen' = [gen EXCEPT !.pc = IF gen.pc = "blocked_pos" THEN "reduce"
                                 ELSE "test_neg",
                          !.woke = "timeout"]
    /\ UNCHANGED << ev, cont, prod, fvars >>

\* event.reduce_time_left(0); return True
GenReduce ==
    /\ gen.pc = "reduce"
    /\ ev.lock = "free"
    /\ ev' = reduce_time_left(ev, 0)
    /\ gen' = [gen EXCEPT !.pc = "done", !.result = "True", !.path = "pos"]
    /\ UNCHANGED << cont, prod, fvars >>

\* the loop as `while event.time_left <= 0:`
GenTestNeg_le ==
    /\ gen.pc = "test_neg"
    /\ gen' = IF ev.time_left <= 0
              THEN [gen EXCEPT !.pc = "wait_neg"]
              ELSE [gen EXCEPT !.pc = "done", !.result = "True", !.path = "neg"]
    /\ UNCHANGED << ev, cont, prod, fvars >>

\* `while event.time_left < 0:`, and the `return True` after the loop
GenTestNeg ==
    /\ gen.pc = "test_neg"
    /\ gen' = IF ev.time_left < 0
              THEN [gen EXCEPT !.pc = "wait_neg"]
              ELSE [gen EXCEPT !.pc = "done", !.result = "True", !.path = "neg"]
    /\ UNCHANGED << ev, cont, prod, fvars >>

\* self._continue.wait(10000) called
GenWaitNeg ==
    /\ gen.pc = "wait_neg"
    /\ gen' = IF cont
              THEN [gen EXCEPT !.pc = "test_neg", !.woke = "nowait"]
              ELSE [gen EXCEPT !.pc = "blocked_neg"]
    /\ UNCHANGED << ev, cont, prod, fvars >>

\* the producer thread calls event.reduce_time_left(0)
ProdReduce ==
    /\ prod.pc = "start"
    /\ prod.kind = "reduce_resume"
    /\ ev.lock = "free"
    /\ ev' = reduce_time_left(ev, 0)
    /\ prod' = [prod EXCEPT !.pc = "resume"]
    /\ UNCHANGED << cont, gen, fvars >>

\* resume() that does not set the signal
resume_noset ==
    /\ \/ prod.pc = "resume"
       \/ prod.pc = "start" /\ prod.kind = "resume"
    /\ prod' = [prod EXCEPT !.pc = "done", !.at = gen.pc]
    /\ UNCHANGED << ev, cont, gen, fvars >>

\* FallBackGenerator.resume, called by the producer thread
resume ==
    /\ \/ prod.pc = "resume"
       \/ prod.pc = "start" /\ prod.kind = "resume"
    /\ cont' = TRUE
    /\ prod' = [prod EXCEPT !.pc = "done", !.at = gen.pc]
    /\ UNCHANGED << ev, gen, fvars >>

\* the steps of the handler other than a timeout elapsing
GenStep ==
    \/ GenLock
    \/ GenCheck
    \/ GenClear
    \/ GenUnlock
    \/ GenTestPos
    \/ GenWaitPos
    \/ GenWake
    \/ GenReduce
    \/ GenTestNeg
    \/ GenWaitNeg

GenIdle ==
    /\ ev = [time_left |-> 0, lock |-> "free"]
    /\ cont = FALSE
    /\ gen = GenStart
    /\ prod = [pc |-> "start", kind |-> "none", at |-> ""]

FileIdle ==
    /\ file = init("r")
    /\ op = Did("init", "")
    /\ submitted = <<>>
    /\ nWrites = 0
    /\ nClosed = 0
    /\ hist = HistInit

GenInit ==
    /\ FileIdle
    /\ \E t \in -1..MaxTimeLeft : ev = [time_left |-> t, lock |-> "free"]
    /\ cont \in BOOLEAN
    /\ gen = GenStart
    /\ \E k \in ProducerKinds : prod = [pc |-> "start", kind |-> k, at |-> ""]

GenNext ==
    \/ GenLock
    \/ GenCheck
    \/ GenClear
    \/ GenUnlock
    \/ GenTestPos
    \/ GenWaitPos
    \/ GenWake
    \/ GenTimeout
    \/ GenReduce
    \/ GenTestNeg
    \/ GenWaitNeg
    \/ ProdReduce
    \/ resume

GenSpec == GenInit /\ [][GenNext]_vars

\* The dispatch thread keeps running and so does a producer that has
\* started; nothing makes a timeout elapse.
GenFairSpec ==
    GenSpec /\ WF_vars(GenStep) /\ WF_vars(resume) /\ WF_vars(ProdReduce)

Init ==
    /\ \E mode \in Modes : file = init(mode)
    /\ op = Did("init", "")
    /\ submitted = <<>>
    /\ nWrites = 0
    /\ nClosed = 0
    /\ hist = HistInit
    /\ GenIdle

Next ==
    \/ Registered
    \/ Started
    \/ Ready
    \/ Write
    \/ Close
    \/ Stopped
    \/ PrepareUnregister
    \/ Disconnect
    \/ ReaderReady
    \/ WriterReady

Spec == Init /\ [][Next]_vars

\* a writer-ready notification whose os.write takes at least one byte, or
\* the whole of an empty chunk
WriterProgress ==
    /\ WriterReady
    /\ (file'.sink # file.sink \/ op'.res = "full")

\* The poller keeps notifying a registered writer, and an os.write that is
\* tried again and again takes at least one byte.
FairSpec == Spec /\ WF_vars(WriterReady) /\ WF_vars(WriterProgress)

\* A File opened for writing that is written to and closed by its user,
\* under the same fairness.
DrainInit == Init /\ file.mode = "w"

DrainNext ==
    \/ Registered
    \/ Ready
    \/ Write
    \/ Close
    \/ WriterReady

DrainFairSpec ==
    DrainInit /\ [][DrainNext]_vars
        /\ WF_vars(WriterReady) /\ WF_vars(WriterProgress)

\* A File that is only written to, on a descriptor that takes one byte per
\* os.write and never fails.
OneByteNext ==
    \/ Registered
    \/ Started
    \/ Ready
    \/ WriteBytes
    \/ WriterReadyOne

OneByteSpec == Init /\ [][OneByteNext]_vars

----------------------------------------------------------------------------
(***************************************************************************)
(* The stream component's properties                                       *)
(***************************************************************************)
\* "closed" signals fired by the operation that ran last
ClosedNow == Count(file.fired, "closed")

\* C1: as long as no close has been asked for and no os.write has raised,
\* the bytes the sink has received followed by the queued chunks, head to
\* tail, are the bytes of all write() calls in call order, however the sink
\* splits the chunks into partial writes.
C1_WriteOrderPreserved ==
    (~hist.anyClose /\ ~hist.writeFault)
        => file.sink \o Concat(file.buffer) = submitted

\* two chunks were submitted, the first was written in part, and its
\* remainder is back at the head of the queue
C1_Witness ==
    /\ ~hist.anyClose /\ ~hist.writeFault
    /\ op = Did("_write", "partial")
    /\ file.sink = <<"a">>
    /\ file.buffer = << <<"b">>, <<"c", "d">> >>

\* C2: when close() was called with chunks queued, a writer-ready
\* notification that fires "closed" without its write having failed for good
\* (the write succeeded, or would block) finds every chunk that was queued at
\* the time of close() delivered to the sink, and the queue empty.
C2_CloseDropsNothing ==
    ( /\ hist.closeMark.set
      /\ ClosedNow > 0
      /\ op.name = "_write"
      /\ op.res \in { "full", "partial", "idle", "EWOULDBLOCK" } )
        => ( /\ file.buffer = <<>>
             /\ IsPrefix(hist.closeMark.bytes, file.sink) )

\* C3: close() on an open stream with nothing queued, called twice in a
\* row: the second call fires no "closed" and discards nothing.
C3_CloseIdempotent ==
    [][ ( /\ op = Did("close", "")
          /\ file.fired = <<"closed">>
          /\ op' = Did("close", "") )
            => ( /\ nClosed' = nClosed
                 /\ file'.discards = 0 ) ]_vars

\* C4: a read that returns no bytes fires exactly one "eof", with at most
\* one "closed" and only after the "eof", and once a read has returned no
\* bytes no reader-ready notification reads the descriptor again.
C4_EofClosesOnce ==
    [][ /\ op' = Did("_read", "eof")
            => ( /\ Count(file'.fired, "eof") = 1
                 /\ Head(file'.fired) = "eof"
                 /\ Count(file'.fired, "closed") <= 1 )
        /\ hist.eofSeen => op'.name # "_read" ]_vars

\* C5: a writer-ready notification whose write fails with EPIPE or ENOTCONN
\* leaves the queue empty and no close pending, has called the poller's
\* discard once and has fired "closed" exactly once and nothing else,
\* whatever was queued and whether or not a close was pending.
C5_PeerGoneForcesClose ==
    (op.name = "_write" /\ op.res \in { "EPIPE", "ENOTCONN" })
        => ( /\ file.buffer = <<>>
             /\ ~file.closeflag
             /\ file.discards = 1
             /\ file.fired = <<"closed">> )

\* a close was pending with two chunks queued and nothing written when the
\* write of the first chunk failed with EPIPE
C5_Witness ==
    /\ op = Did("_write", "EPIPE")
    /\ hist.closeMark.set
    /\ Len(hist.closeMark.bytes) = 4
    /\ file.sink = <<>>
    /\ file.fired = <<"closed">>

\* C8: once the descriptor is open, chunks are queued exactly when the
\* descriptor is registered with the poller as a writer.
C8_WriterIffPending ==
    IsOpen(file) => ((file.buffer # <<>>) <=> file.writing)

\* a full write has emptied a queue of two chunks and the writer
\* registration is gone, with no close involved
C8_Witness ==
    /\ op = Did("_write", "full")
    /\ ~hist.anyClose
    /\ nWrites = 2
    /\ Len(file.sink) = 4
    /\ file.buffer = <<>>
    /\ ~file.writing

\* C9: while a close is pending, write(data) leaves the queue as it is.
C9_NoWriteOnceClosing ==
    [][ (file.closeflag /\ nWrites' = nWrites + 1)
            => file'.buffer = file.buffer ]_vars

\* "closed" had been fired before the operation that ran last started
ClosedBefore == nClosed > ClosedNow

\* C10: once "closed" has been fired the descriptor is registered neither as
\* reader nor as writer, and no operation that starts later calls os.write.
C10_NothingAfterClosed ==
    /\ nClosed > 0 => (~file.reading /\ ~file.writing)
    /\ ClosedBefore => ~(op.name = "_write" /\ op.res # "idle")

\* C11: whatever "registered" and "started" signals arrive, Ready is fired
\* at most once, it has been fired exactly once as soon as a "started"
\* signal or the "registered" signal of a poller has been handled, and
\* self._poller, once bound, never changes.
C11_ReadyOnce ==
    /\ [](hist.nReady <= 1)
    /\ []((op.name = "started"
            \/ (op.name = "registered" /\ op.res \in { "poller", "bound" }))
                => (hist.nReady = 1 /\ file.poller # "None"))
    /\ [][file.poller # "None" => file'.poller = file.poller]_vars

\* a "started" signal has arrived at a File that a "registered" signal had
\* bound to the tree's poller: no second Ready, the poller is the same
C11_Witness ==
    /\ op = Did("started", "bound")
    /\ file.poller = "tree"
    /\ hist.nReady = 1

\* C12: with no close pending and a descriptor that takes exactly one byte
\* per os.write, every writer-ready notification delivers the next byte of
\* what was submitted, the File is registered as a writer exactly while
\* fewer notifications have arrived than bytes were submitted, and after as
\* many notifications as bytes the queue is empty, the sink holds all the
\* bytes in order and the writer registration is gone.
C12_OneBytePerNotification ==
    /\ hist.notifs = Len(file.sink)
    /\ file.sink \o Concat(file.buffer) = submitted
    /\ file.writing <=> hist.notifs < Len(submitted)
    /\ hist.notifs = Len(submitted) => file.buffer = <<>>

\* "ab" and "cd" were written and the fourth notification has just arrived
C12_Witness ==
    /\ nWrites = 2
    /\ submitted = <<"a", "b", "c", "d">>
    /\ op = Did("_write", "full")
    /\ hist.notifs = 4
    /\ file.sink = submitted
    /\ file.buffer = <<>>
    /\ ~file.writing

\* C15: a reader-ready notification whose read raises an error other than
\* would-block fires "error" and then "closed" and nothing else, empties the
\* queue without another byte reaching the sink, leaves no close pending and
\* removes the descriptor from the poller.
C15_ReadFaultForcesClose ==
    [][op' = Did("_read", "EIO")
        => ( /\ file'.fired = << "error", "closed" >>
             /\ file'.buffer = <<>>
             /\ file'.sink = file.sink
             /\ ~file'.closeflag
             /\ file'.discards = 1
             /\ ~file'.reading /\ ~file'.writing )]_vars

\* a read has failed while a close was deferred behind queued bytes: the
\* queue is empty and those bytes never reached the sink
C15_Witness ==
    /\ op = Did("_read", "EIO")
    /\ ClosedNow = 1
    /\ hist.closeMark.set
    /\ ~hist.writeFault
    /\ Len(file.sink) < Len(hist.closeMark.bytes)
    /\ file.buffer = <<>>

\* C16: would-block is transient on both paths: a read that raises it
\* changes nothing and fires nothing, and an os.write that raises it fires
\* nothing and leaves the chunk at the head of the queue.
C16_WouldBlockTransient ==
    [][ /\ op' = Did("_read", "EWOULDBLOCK") => file' = enter(file)
        /\ op' = Did("_write", "EWOULDBLOCK")
                => (file'.fired = <<>> /\ file'.buffer = file.buffer) ]_vars

C18_DeferredCloseCompletes ==
    /\ [][(file.closeflag /\ file.buffer # <<>> /\ file'.buffer = <<>>)
            => Count(file'.fired, "closed") = 1]_vars
    /\ ((file.closeflag /\ nClosed < MaxClosed) ~> (ClosedNow > 0))

\* the writer-ready notification that delivered the last queued byte has
\* fired "closed", a close having been deferred
C18_Witness ==
    /\ op = Did("_write", "full")
    /\ ClosedNow = 1
    /\ hist.closeMark.set
    /\ ~hist.writeFault
    /\ file.sink = hist.closeMark.bytes
    /\ file.sink # <<>>
    /\ file.buffer = <<>>

\* C19: after every operation and every handler, _closeflag set implies a
\* non-empty queue, and an operation that fired "closed" leaves _closeflag
\* False.
C19_FlagImpliesPending ==
    /\ file.closeflag => file.buffer # <<>>
    /\ ClosedNow > 0 => ~file.closeflag

\* a disconnect has torn the File down while a close was deferred behind
\* queued chunks: the flag is reset and the queue is empty
C19_Witness ==
    /\ op = Did("_disconnect", "")
    /\ ClosedNow = 1
    /\ hist.closeMark.set
    /\ ~file.closeflag
    /\ file.buffer = <<>>

----------------------------------------------------------------------------
(***************************************************************************)
(* The idle fallback's properties                                          *)
(***************************************************************************)
\* C6: a wait with time_left > 0 that is blocked when the wake signal is set
\* ends without its timeout elapsing, and the handler that returns after a
\* wait, ended by the signal or by the timeout, has set time_left to 0 and
\* returns True.
C6_ResumeEndsWait ==
    /\ []((gen.pc = "done" /\ gen.path = "pos")
            => (ev.time_left = 0 /\ gen.result = "True"))
    /\ ((gen.pc = "blocked_pos" /\ cont) ~> (gen.pc = "done"))

\* the handler has returned after a wait that resume() ended
C6_Witness ==
    /\ gen.pc = "done"
    /\ gen.path = "pos"
    /\ gen.woke = "signal"
    /\ prod.pc = "done"
    /\ prod.kind = "resume"

\* C7: a handler that finds time_left = 0 under the lock returns True
\* without clearing the wake signal, without waiting and with time_left
\* still 0.
C7_ZeroReturnsAtOnce ==
    (gen.pc = "done" /\ gen.path = "zero")
        => ( /\ gen.result = "True"
             /\ ~gen.cleared
             /\ gen.woke = ""
             /\ ev.time_left = 0
             /\ ev.lock = "free"
             /\ (gen.cont_in => cont) )

\* the handler has returned at once and the wake signal, set before it took
\* the lock, is still set
C7_Witness ==
    /\ gen.pc = "done"
    /\ gen.path = "zero"
    /\ gen.cont_in
    /\ cont

\* C13 as stated: once a handler entered with time_left < 0 is in its loop
\* and resume() has been called, the handler returns.
C13_ResumeAloneReturns ==
    (gen.t_in < 0 /\ gen.pc # "call" /\ prod.pc = "done") ~> (gen.pc = "done")

\* C13: a handler entered with time_left < 0 repeats its fixed-length wait
\* while time_left < 0; resume() ends the wait in progress, and the handler
\* returns True once a producer has called reduce_time_left(0) and then
\* resume(), and never while time_left is still negative.
C13_ReduceThenResumeReturns ==
    /\ []((gen.pc = "done" /\ gen.path = "neg")
            => (ev.time_left >= 0 /\ gen.result = "True"))
    /\ ((gen.pc = "blocked_neg" /\ cont) ~> (gen.pc # "blocked_neg"))
    /\ ((gen.t_in < 0 /\ gen.pc # "call"
            /\ prod.kind = "reduce_resume" /\ prod.pc = "done")
                ~> (gen.pc = "done"))

\* a handler entered with time_left < 0 has returned after resume() ended
\* its wait, reduce_time_left(0) having been called first
C13_Witness ==
    /\ gen.pc = "done"
    /\ gen.path = "neg"
    /\ gen.t_in < 0
    /\ gen.woke = "signal"
    /\ prod.kind = "reduce_resume"
    /\ prod.pc = "done"

\* the handler is blocked in a wait()
Blocked == gen.pc \in { "blocked_pos", "blocked_neg" }

\* C14 as stated: the first wait of a handler never blocks if resume() was
\* called at any point before that wait started, the points before the
\* handler's clear() included.
C14_SetBeforeWaitSeen ==
    ~(Blocked /\ gen.woke = "" /\ prod.pc = "done" /\ prod.at \notin { "blocked_pos", "blocked_neg" })

\* C14: a wait never blocks if resume() was called after the handler's
\* clear() and before the wait started; a resume() called before the clear()
\* is erased by it.
C14_SetAfterClearSeen ==
    /\ ~(Blocked /\ prod.pc = "done"
            /\ prod.at \in { "unlock", "test_pos", "wait_pos", "test_neg", "wait_neg" })
    /\ (prod.pc = "done" /\ prod.at \in { "call", "check", "clear" } /\ gen.cleared)
            => ~cont

\* resume() was called between the clear() and the wait of a handler entered
\* with time_left > 0, and the wait returned without blocking
C14_Witness ==
    /\ gen.pc = "done"
    /\ gen.path = "pos"
    /\ gen.t_in > 0
    /\ gen.woke = "nowait"
    /\ prod.kind = "resume"
    /\ prod.pc = "done"
    /\ prod.at \in { "unlock", "test_pos", "wait_pos" }

\* the producer has called reduce_time_left(0) and then resume()
Notified == prod.kind = "reduce_resume" /\ prod.pc = "done"

\* C20: a producer that calls reduce_time_left(0) under the event's lock and
\* then resume() is never missed: the handler is never blocked with the
\* signal clear after the notification, a handler that has returned either
\* found time_left = 0 under the lock and did not wait or was past its
\* clear() when resume() set the signal, and the handler returns, whether it
\* was entered with time_left > 0 or < 0.
C20_NotificationNotMissed ==
    /\ []((Notified /\ Blocked) => cont)
    /\ []((Notified /\ gen.pc = "done")
            => \/ gen.path = "zero" /\ gen.woke = ""
               \/ prod.at \notin { "call", "check", "clear" })
    /\ (Notified ~> (gen.pc = "done"))

\* a wait with time_left > 0 was blocked when the producer notified, and the
\* handler has returned
C20_Witness ==
    /\ Notified
    /\ prod.at = "blocked_pos"
    /\ gen.pc = "done"
    /\ gen.path = "pos"
    /\ gen.woke = "signal"

====
